---------------------------- MODULE Spec2Model ----------------------------
(***************************************************************************)
(* Model of the pastiera dictionary build scripts (src/scripts/*.py):      *)
(* normalisation, delete-neighbourhood generation, frequency truncation,   *)
(* the three index build paths and the batch drivers.                       *)
(*                                                                         *)
(* Strings are sequences of characters; a character is a name whose         *)
(* Unicode properties (lowercase mapping, canonical decomposition, general  *)
(* category, code point order) are given by the tables below.  A JSON       *)
(* object is a record whose DOMAIN is the set of keys present, so an entry  *)
(* without "f" is a record without the field f.                             *)
(***************************************************************************)
EXTENDS Integers, Sequences, FiniteSets, TLC

VARIABLES
    \* generate_deletes run: its arguments, its result, its position
    term, max_distance, deletes, dpc,
    \* truncation runs: the input list, the cap, the outputs of a first run
    \* and of a run on the first run's output, the position
    tdata, max_words, truncated, truncated2, tpc,
    \* index builds: the input list, the two options, the set of build
    \* paths that have run, and the artifact each path wrote
    bdata, prefix_length, max_edit_distance, bdone, outMain, outConvert, outPre,
    \* script runs over a dictionaries directory: which script runs, the
    \* *_base.json files (language -> contents), dict_backup/, the written
    \* *_base.dict files, truncate_dict's arguments and its separate output
    \* file, the position, the files still to visit, the language between
    \* its two writes and its truncated list, the languages processed
    \* without and with an error, the exit status
    driver, fs, backupFs, dictFs, td_input, td_inplace, outFile,
    pc, todo, cur, curData, ok, failed, exit_code,
    \* normalize runs: the word, its key by the two implementations, the
    \* keys of its upper-cased and lower-cased spellings, the position
    nword, nkey, nkeyPre, nkeyUpper, nkeyLower, npc

dvars == <<term, max_distance, deletes, dpc>>
tvars == <<tdata, max_words, truncated, truncated2, tpc>>
bvars == <<bdata, prefix_length, max_edit_distance, bdone,
           outMain, outConvert, outPre>>
xvars == <<driver, fs, backupFs, dictFs, td_input, td_inplace, outFile,
           pc, todo, cur, curData, ok, failed, exit_code>>
nvars == <<nword, nkey, nkeyPre, nkeyUpper, nkeyLower, npc>>
vars == <<dvars, tvars, bvars, xvars, nvars>>

(***************************************************************************)
(* Bounds of the model.                                                     *)
(***************************************************************************)
MaxLen == 4
MaxDistance == 3
MaxEntries == 3
MaxWords == 3
MaxBuildEntries == 2
MaxWordLen == 2

(***************************************************************************)
(* Generic helpers.                                                         *)
(***************************************************************************)
Min(a, b) == IF a <= b THEN a ELSE b

Max(a, b) == IF a >= b THEN a ELSE b

SeqsUpTo(S, n) == UNION {[1..k -> S] : k \in 0..n}

RECURSIVE Flatten(_)
Flatten(ss) == IF ss = <<>> THEN <<>> ELSE Head(ss) \o Flatten(Tail(ss))

(***************************************************************************)
(* Characters.  "A", "C", "S" are the capitals of "a", "c", "s"; "agrave"  *)
(* and "Agrave" are the precomposed letters a/A-with-grave (U+00E0,         *)
(* U+00C0), whose canonical decomposition is the base letter followed by    *)
(* the combining mark "grave" (U+0300, Mn); "eszett" is U+00DF, a lowercase *)
(* letter whose uppercase is "SS"; "alef" is U+05D0, a letter without case  *)
(* (Lo); "visarga" is U+0903, a spacing combining mark (Mc); "1" is a       *)
(* digit.                                                                   *)
(***************************************************************************)
Chars == {"a", "c", "i", "s", "t", "A", "C", "S", "agrave", "Agrave",
          "eszett", "alef", "grave", "visarga", "1"}

\* str.lower(), per character
Lower(ch) ==
    CASE ch = "A" -> <<"a">>
      [] ch = "C" -> <<"c">>
      [] ch = "S" -> <<"s">>
      [] ch = "Agrave" -> <<"agrave">>
      [] OTHER -> <<ch>>

\* str.upper(), per character, for the characters whose capitals are in
\* the table
Upper(ch) ==
    CASE ch \in {"a", "A"} -> <<"A">>
      [] ch \in {"c", "C"} -> <<"C">>
      [] ch \in {"s", "S"} -> <<"S">>
      [] ch \in {"agrave", "Agrave"} -> <<"Agrave">>
      [] ch = "eszett" -> <<"S", "S">>
      [] ch \in {"alef", "grave", "visarga", "1"} -> <<ch>>

\* unicodedata.normalize("NFD", .), per character
NFD(ch) ==
    CASE ch = "agrave" -> <<"a", "grave">>
      [] ch = "Agrave" -> <<"A", "grave">>
      [] OTHER -> <<ch>>

\* unicodedata.category
Category(ch) ==
    CASE ch \in {"A", "C", "S", "Agrave"} -> "Lu"
      [] ch = "alef" -> "Lo"
      [] ch = "grave" -> "Mn"
      [] ch = "visarga" -> "Mc"
      [] ch = "1" -> "Nd"
      [] OTHER -> "Ll"

\* code point order, the order of Python's string comparison
CodePoint(ch) ==
    CASE ch = "1" -> 49
      [] ch = "A" -> 65
      [] ch = "C" -> 67
      [] ch = "S" -> 83
      [] ch = "a" -> 97
      [] ch = "c" -> 99
      [] ch = "i" -> 105
      [] ch = "s" -> 115
      [] ch = "t" -> 116
      [] ch = "Agrave" -> 192
      [] ch = "eszett" -> 223
      [] ch = "agrave" -> 224
      [] ch = "grave" -> 768
      [] ch = "alef" -> 1488
      [] ch = "visarga" -> 2307

IsLetterCategory(cat) == cat \in {"Lu", "Ll", "Lt", "Lm", "Lo"}

LowerStr(word) == Flatten([i \in 1..Len(word) |-> Lower(word[i])])

NFDStr(word) == Flatten([i \in 1..Len(word) |-> NFD(word[i])])

NotMn(ch) == Category(ch) # "Mn"

IsLetter(ch) == IsLetterCategory(Category(ch))

IsLetterOrMn(ch) == IsLetterCategory(Category(ch)) \/ Category(ch) = "Mn"

\* normalize of build_symspell_dict.py and backup_truncate_and_convert.py:
\* lowercase, NFD, strip Mn, keep letters.
Normalize(word) ==
    SelectSeq(SelectSeq(NFDStr(LowerStr(word)), NotMn), IsLetter)

\* normalize of preprocess_dictionaries.py: lowercase, NFD, keep letters
\* or Mn, then strip Mn.
NormalizePre(word) ==
    SelectSeq(SelectSeq(NFDStr(LowerStr(word)), IsLetterOrMn), NotMn)

(***************************************************************************)
(* generate_deletes: depth-limited recursion over one shared visited set.   *)
(* The same function text is in build_symspell_dict.py (36-49) and in       *)
(* backup_truncate_and_convert.py (33-47).                                  *)
(***************************************************************************)
\* current[:i] + current[i+1:], with i counted from 1
DeleteAt(current, i) ==
    SubSeq(current, 1, i - 1) \o SubSeq(current, i + 1, Len(current))

RECURSIVE Recurse(_, _, _)
RECURSIVE RecurseLoop(_, _, _, _)
\* the for loop of recurse, from position i on, threading the visited set
RecurseLoop(current, d, i, seen) ==
    IF i > Len(current)
    THEN seen
    ELSE LET deleted == DeleteAt(current, i)
         IN  IF deleted \notin seen
             THEN RecurseLoop(current, d, i + 1,
                              Recurse(deleted, d - 1, seen \cup {deleted}))
             ELSE RecurseLoop(current, d, i + 1, seen)

Recurse(current, d, seen) ==
    IF d = 0 THEN seen ELSE RecurseLoop(current, d, 1, seen)

\* a version that stops the recursion one level early
GenerateDeletesShallow(t, md) ==
    IF md <= 1 THEN Recurse(t, md, {}) ELSE Recurse(t, md - 1, {})

GenerateDeletes(t, md) == Recurse(t, md, {})

(***************************************************************************)
(* Maps (Python dicts) are functions whose DOMAIN is the set of keys.       *)
(***************************************************************************)
EmptyMap == [k \in {} |-> <<>>]

\* map.setdefault(k, []).append(v)
SetDefaultAppend(map, k, v) ==
    IF k \in DOMAIN map
    THEN [map EXCEPT ![k] = Append(@, v)]
    ELSE map @@ (k :> <<v>>)

IndexEntry(w, f) == [word |-> w, frequency |-> f, source |-> 0]

EmptyArtifact == [normalizedIndex |-> EmptyMap, prefixCache |-> EmptyMap]

\* Python's < on strings: lexicographic by code point
RECURSIVE StrLess(_, _)
StrLess(a, b) ==
    IF b = <<>> THEN FALSE
    ELSE IF a = <<>> THEN TRUE
    ELSE IF CodePoint(Head(a)) # CodePoint(Head(b))
         THEN CodePoint(Head(a)) < CodePoint(Head(b))
         ELSE StrLess(Tail(a), Tail(b))

\* sorted(v) of a set of strings
RECURSIVE SortedStrings(_)
SortedStrings(S) ==
    IF S = {} THEN <<>>
    ELSE LET m == CHOOSE x \in S : \A y \in S \ {x} : StrLess(x, y)
         IN  <<m>> \o SortedStrings(S \ {m})

Elements(s) == {s[i] : i \in 1..Len(s)}

(***************************************************************************)
(* Specification of generate_deletes on bounded inputs.                     *)
(***************************************************************************)
TermAlphabet == {"a", "c", "s"}

IdleDeletes ==
    /\ term = <<>>
    /\ max_distance = 0
    /\ deletes = {}
    /\ dpc = "idle"

IdleTruncate ==
    /\ tdata = <<>>
    /\ max_words = 0
    /\ truncated = <<>>
    /\ truncated2 = <<>>
    /\ tpc = "idle"

IdleBuild ==
    /\ bdata = <<>>
    /\ prefix_length = 0
    /\ max_edit_distance = 0
    /\ bdone = {}
    /\ outMain = EmptyArtifact
    /\ outConvert = EmptyArtifact
    /\ outPre = EmptyArtifact

IdleScripts ==
    /\ driver = "none"
    /\ fs = EmptyMap
    /\ backupFs = EmptyMap
    /\ dictFs = EmptyMap
    /\ td_input = "none"
    /\ td_inplace = FALSE
    /\ outFile = <<>>
    /\ pc = "idle"
    /\ todo = {}
    /\ cur = "none"
    /\ curData = <<>>
    /\ ok = {}
    /\ failed = {}
    /\ exit_code = -1

IdleNormalize ==
    /\ nword = <<>>
    /\ nkey = <<>>
    /\ nkeyPre = <<>>
    /\ nkeyUpper = <<>>
    /\ nkeyLower = <<>>
    /\ npc = "idle"

InitDeletes ==
    /\ term \in SeqsUpTo(TermAlphabet, MaxLen)
    /\ max_distance \in 0..MaxDistance
    /\ deletes = {}
    /\ dpc = "start"
    /\ IdleTruncate
    /\ IdleBuild
    /\ IdleScripts
    /\ IdleNormalize

CallGenerateDeletes ==
    /\ dpc = "start"
    /\ deletes' = GenerateDeletes(term, max_distance)
    /\ dpc' = "done"
    /\ UNCHANGED <<term, max_distance, tvars, bvars, xvars, nvars>>

NextDeletes == CallGenerateDeletes

SpecDeletes == InitDeletes /\ [][NextDeletes]_vars

\* the strings left when exactly the positions in keep are kept
KeepPositions(t, keep) ==
    LET Pick(i) == i \in keep
        idx == SelectSeq([i \in 1..Len(t) |-> i], Pick)
    IN  [j \in 1..Len(idx) |-> t[idx[j]]]

\* all strings obtained from t by deleting between lo and hi characters
DeletionsBetween(t, lo, hi) ==
    {KeepPositions(t, keep) : keep \in
        {k \in SUBSET (1..Len(t)) : Len(t) - Cardinality(k) \in lo..hi}}

\* C1: generate_deletes(T, D) is exactly the set of strings obtained from T
\* by deleting between 1 and D characters; T is not in it; every element has
\* length in [max(0, len(T)-D), len(T)-1]; it is empty when D = 0.
C1_DeletesExact ==
    dpc = "done" =>
        /\ deletes = DeletionsBetween(term, 1, max_distance)
        /\ term \notin deletes
        /\ \A s \in deletes :
              /\ Len(s) >= Max(0, Len(term) - max_distance)
              /\ Len(s) <= Len(term) - 1
        /\ (max_distance = 0 => deletes = {})

\* a term with a repeated letter, so that two deletion paths converge on a
\* string already in the visited set, expanded to depth 2 or more
C1_Witness ==
    /\ dpc = "done"
    /\ term = <<"a", "a", "c", "a">>
    /\ max_distance = 3
    /\ <<"a">> \in deletes
    /\ <<>> \notin deletes

(***************************************************************************)
(* Raw entries: JSON objects {"w": word, "f": frequency}; either key may   *)
(* be absent.                                                               *)
(***************************************************************************)
casa == <<"c", "a", "s", "a">>
Casa == <<"C", "a", "s", "a">>
citta == <<"c", "i", "t", "t", "agrave">>
digits == <<"1", "1">>

E_casa == [w |-> casa, f |-> 100]
E_Casa == [w |-> Casa, f |-> 50]
E_citta == [w |-> citta, f |-> 100]
E_digits == [w |-> digits, f |-> 0]
E_nofreq == [w |-> <<"a", "c">>]
E_noword == [f |-> 50]

WellFormedEntries == {E_casa, E_Casa, E_citta, E_digits, E_nofreq}

\* dict.get(key, default)
Get(entry, key, default) ==
    IF key \in DOMAIN entry THEN entry[key] ELSE default

(***************************************************************************)
(* truncate_dictionary (truncate_dict.py 17-48; the same sort and slice in  *)
(* backup_truncate_and_convert.py 79-95).                                   *)
(***************************************************************************)
\* key=lambda x: int(x.get("f", 0))
FreqKey(x) == Get(x, "f", 0)

\* x placed after every element whose key is >= its own
InsertDesc(sorted, x) ==
    LET Before(i) == FreqKey(sorted[i]) >= FreqKey(x)
        k == Cardinality({i \in 1..Len(sorted) : Before(i)})
    IN  SubSeq(sorted, 1, k) \o <<x>> \o SubSeq(sorted, k + 1, Len(sorted))

\* x placed after every element whose key is <= its own
InsertAsc(sorted, x) ==
    LET Before(i) == FreqKey(sorted[i]) <= FreqKey(x)
        k == Cardinality({i \in 1..Len(sorted) : Before(i)})
    IN  SubSeq(sorted, 1, k) \o <<x>> \o SubSeq(sorted, k + 1, Len(sorted))

RECURSIVE StableAsc(_)
StableAsc(data) ==
    IF data = <<>> THEN <<>>
    ELSE InsertAsc(StableAsc(SubSeq(data, 1, Len(data) - 1)), data[Len(data)])

RECURSIVE StableDesc(_)
StableDesc(data) ==
    IF data = <<>> THEN <<>>
    ELSE InsertDesc(StableDesc(SubSeq(data, 1, Len(data) - 1)), data[Len(data)])

Reverse(s) == [i \in 1..Len(s) |-> s[Len(s) + 1 - i]]

\* the sort without reverse=True
SortedAscending(data) == StableAsc(data)

\* sorted(data, key=...)[::-1]: descending, equal keys in reversed order
SortedThenReversed(data) == Reverse(StableAsc(data))

\* sorted(data, key=lambda x: int(x.get("f", 0)), reverse=True): Python's
\* sort is stable and reverse=True keeps equal keys in their original order
SortedByFrequency(data) == StableDesc(data)

\* s[:n]
SliceTo(s, n) ==
    IF n >= 0 THEN SubSeq(s, 1, Min(n, Len(s)))
    ELSE SubSeq(s, 1, Max(0, Len(s) + n))

TruncateDictionary(data, n) == SliceTo(SortedByFrequency(data), n)

(***************************************************************************)
(* Specification of truncation: one run, then a run on its output (the      *)
(* in-place use, --output equal to --input, run again).                     *)
(***************************************************************************)
InitTruncate ==
    /\ tdata \in SeqsUpTo(WellFormedEntries, MaxEntries)
    /\ max_words \in 0..MaxWords
    /\ truncated = <<>>
    /\ truncated2 = <<>>
    /\ tpc = "start"
    /\ IdleDeletes
    /\ IdleBuild
    /\ IdleScripts
    /\ IdleNormalize

RunTruncate ==
    /\ tpc = "start"
    /\ truncated' = TruncateDictionary(tdata, max_words)
    /\ tpc' = "once"
    /\ UNCHANGED <<tdata, max_words, truncated2, dvars, bvars, xvars, nvars>>

RunTruncateAgain ==
    /\ tpc = "once"
    /\ truncated2' = TruncateDictionary(truncated, max_words)
    /\ tpc' = "twice"
    /\ UNCHANGED <<tdata, max_words, truncated, dvars, bvars, xvars, nvars>>

NextTruncate == RunTruncate \/ RunTruncateAgain

SpecTruncate == InitTruncate /\ [][NextTruncate]_vars

\* the 1-based place of data[i] in the stable descending-frequency ordering
StableRank(data, i) ==
    1 + Cardinality({j \in 1..Len(data) :
            \/ FreqKey(data[j]) > FreqKey(data[i])
            \/ FreqKey(data[j]) = FreqKey(data[i]) /\ j < i})

\* C2: truncate_dictionary returns the first min(n, |entries|) entries of
\* the stable descending-frequency ordering of its input: that length,
\* frequencies non-increasing, equal frequencies in their original order.
C2_TopNStable ==
    tpc # "start" =>
        /\ Len(truncated) = Min(max_words, Len(tdata))
        /\ \A r \in 1..(Len(truncated) - 1) :
              FreqKey(truncated[r]) >= FreqKey(truncated[r + 1])
        /\ \A r \in 1..Len(truncated) :
              \E i \in 1..Len(tdata) :
                  StableRank(tdata, i) = r /\ truncated[r] = tdata[i]

\* an input out of order, with a tie, cut by the cap
C2_Witness ==
    /\ tpc = "once"
    /\ tdata = <<E_Casa, E_casa, E_citta>>
    /\ max_words = 2
    /\ truncated = <<E_casa, E_citta>>

\* C10: truncating the output of a truncation to the same N again returns
\* the identical sequence of entries.
C10_TruncateIdempotent ==
    tpc = "twice" => truncated2 = truncated

\* a second run over a first output that holds a tie and was cut by the cap
C10_Witness ==
    /\ tpc = "twice"
    /\ tdata = <<E_Casa, E_casa, E_citta>>
    /\ max_words = 2
    /\ truncated2 = <<E_casa, E_citta>>

(***************************************************************************)
(* The index build paths.                                                   *)
(***************************************************************************)
\* for l in range(1, maxl + 1): cache.setdefault(norm[:l], []).append(ie)
RECURSIVE AddPrefixes(_, _, _, _, _)
AddPrefixes(cache, norm, ie, l, maxl) ==
    IF l > maxl THEN cache
    ELSE AddPrefixes(SetDefaultAppend(cache, SubSeq(norm, 1, l), ie),
                     norm, ie, l + 1, maxl)

\* one iteration of the entry loop: the entry goes to its key's bucket and to
\* the buckets of the key's prefixes of length 1..min(len(norm), plen)
AddEntry(index, norm, ie, plen) ==
    [normalizedIndex |-> SetDefaultAppend(index.normalizedIndex, norm, ie),
     prefixCache |-> AddPrefixes(index.prefixCache, norm, ie, 1,
                                 Min(Len(norm), plen))]

\* the prefix cache length written into load_input and process_dictionary
CachePrefixLength == 4

\* build_symspell_dict.load_input on a base JSON list
RECURSIVE LoadInput(_)
LoadInput(data) ==
    IF data = <<>> THEN EmptyArtifact
    ELSE LET entry == data[Len(data)]
             w == entry["w"]
             f == Get(entry, "f", 1)
         IN  AddEntry(LoadInput(SubSeq(data, 1, Len(data) - 1)),
                      Normalize(w), IndexEntry(w, f), CachePrefixLength)

\* the entry loop of convert_to_symspell
RECURSIVE ConvertIndex(_, _)
ConvertIndex(data, plen) ==
    IF data = <<>> THEN EmptyArtifact
    ELSE LET entry == data[Len(data)]
             w == entry["w"]
             f == Get(entry, "f", 1)
         IN  AddEntry(ConvertIndex(SubSeq(data, 1, Len(data) - 1), plen),
                      Normalize(w), IndexEntry(w, f), plen)

\* the entry loop of process_dictionary
RECURSIVE ProcessIndex(_)
ProcessIndex(data) ==
    IF data = <<>> THEN EmptyArtifact
    ELSE LET entry == data[Len(data)]
             word == entry["w"]
             freq == Get(entry, "f", 1)
         IN  AddEntry(ProcessIndex(SubSeq(data, 1, Len(data) - 1)),
                      NormalizePre(word), IndexEntry(word, freq),
                      CachePrefixLength)

\* bucket.sort(key=lambda x: x['frequency'], reverse=True)
RECURSIVE SortBucket(_)
SortBucket(bucket) ==
    IF bucket = <<>> THEN <<>>
    ELSE LET x == bucket[Len(bucket)]
             rest == SortBucket(SubSeq(bucket, 1, Len(bucket) - 1))
             Before(i) == rest[i].frequency >= x.frequency
             k == Cardinality({i \in 1..Len(rest) : Before(i)})
         IN  SubSeq(rest, 1, k) \o <<x>> \o SubSeq(rest, k + 1, Len(rest))

\* the delete loop of build_symspell_dict.main: the deletes of the key's
\* prefix, each mapped to the full normalized key
MainSymDeletes(ni, med, plen) ==
    LET Dels(norm) == GenerateDeletes(SliceTo(norm, plen), med)
        variants == UNION {Dels(norm) : norm \in DOMAIN ni}
    IN  [d \in variants |->
            SortedStrings({norm : norm \in {n \in DOMAIN ni : d \in Dels(n)}})]

\* a delete loop that takes the deletes of the full key
ConvertSymDeletesFullKey(ni, med, plen) ==
    LET Dels(norm) == GenerateDeletes(norm, med)
        variants == UNION {Dels(norm) : norm \in DOMAIN ni}
    IN  [d \in variants |->
            SortedStrings({SliceTo(norm, plen) :
                           norm \in {n \in DOMAIN ni : d \in Dels(n)}})]

\* the delete loop of convert_to_symspell: the deletes of the key's prefix,
\* each mapped to that prefix
ConvertSymDeletes(ni, med, plen) ==
    LET Dels(norm) == GenerateDeletes(SliceTo(norm, plen), med)
        variants == UNION {Dels(norm) : norm \in DOMAIN ni}
    IN  [d \in variants |->
            SortedStrings({SliceTo(norm, plen) :
                           norm \in {n \in DOMAIN ni : d \in Dels(n)}})]

SymMeta(med, plen) == [maxEditDistance |-> med, prefixLength |-> plen]

\* build_symspell_dict: load_input, then main
BuildSymspellDictOut(data, med, plen) ==
    LET loaded == LoadInput(data)
    IN  [normalizedIndex |-> loaded.normalizedIndex,
         prefixCache |-> loaded.prefixCache,
         symDeletes |-> MainSymDeletes(loaded.normalizedIndex, med, plen),
         symMeta |-> SymMeta(med, plen)]

\* backup_truncate_and_convert.convert_to_symspell
ConvertToSymspell(data, med, plen) ==
    LET index == ConvertIndex(data, plen)
    IN  [normalizedIndex |-> index.normalizedIndex,
         prefixCache |-> index.prefixCache,
         symDeletes |-> ConvertSymDeletes(index.normalizedIndex, med, plen),
         symMeta |-> SymMeta(med, plen)]

\* preprocess_dictionaries.process_dictionary
ProcessDictionaryOut(data) ==
    LET index == ProcessIndex(data)
    IN  [normalizedIndex |-> index.normalizedIndex,
         prefixCache |-> [p \in DOMAIN index.prefixCache |->
                              SortBucket(index.prefixCache[p])]]

(***************************************************************************)
(* Specification of the builds: the three paths run, in any order, on the   *)
(* same input list and options.                                             *)
(***************************************************************************)
PrefixLengths == {2, 4, 5}
EditDistances == {0, 1, 2}

InitBuild ==
    /\ bdata \in SeqsUpTo(WellFormedEntries, MaxBuildEntries)
    /\ prefix_length \in PrefixLengths
    /\ max_edit_distance \in EditDistances
    /\ bdone = {}
    /\ outMain = EmptyArtifact
    /\ outConvert = EmptyArtifact
    /\ outPre = EmptyArtifact
    /\ IdleDeletes
    /\ IdleTruncate
    /\ IdleScripts
    /\ IdleNormalize

RunBuildSymspellDict ==
    /\ "main" \notin bdone
    /\ outMain' = BuildSymspellDictOut(bdata, max_edit_distance, prefix_length)
    /\ bdone' = bdone \cup {"main"}
    /\ UNCHANGED <<bdata, prefix_length, max_edit_distance, outConvert, outPre,
                   dvars, tvars, xvars, nvars>>

RunConvertToSymspell ==
    /\ "convert" \notin bdone
    /\ outConvert' = ConvertToSymspell(bdata, max_edit_distance, prefix_length)
    /\ bdone' = bdone \cup {"convert"}
    /\ UNCHANGED <<bdata, prefix_length, max_edit_distance, outMain, outPre,
                   dvars, tvars, xvars, nvars>>

RunProcessDictionary ==
    /\ "pre" \notin bdone
    /\ outPre' = ProcessDictionaryOut(bdata)
    /\ bdone' = bdone \cup {"pre"}
    /\ UNCHANGED <<bdata, prefix_length, max_edit_distance, outMain,
                   outConvert, dvars, tvars, xvars, nvars>>

NextBuild ==
    RunBuildSymspellDict \/ RunConvertToSymspell \/ RunProcessDictionary

SpecBuild == InitBuild /\ [][NextBuild]_vars

\* the artifact a build path wrote
Out(path) ==
    CASE path = "main" -> outMain
      [] path = "convert" -> outConvert
      [] path = "pre" -> outPre

\* the prefix length a path is configured with: the option, where the path
\* has one; process_dictionary has none and its length is 4
ConfiguredPrefixLength(path) ==
    IF path = "pre" THEN 4 ELSE prefix_length

WordsOf(bucket) == [i \in 1..Len(bucket) |-> bucket[i].word]

InputWords == [i \in 1..Len(bdata) |-> bdata[i]["w"]]

CountIn(seq, x) == Cardinality({i \in 1..Len(seq) : seq[i] = x})

PrefixesOf(key, plen) == {SubSeq(key, 1, l) : l \in 1..Min(Len(key), plen)}

InputKeys == {Normalize(InputWords[i]) : i \in 1..Len(bdata)}

\* each input word is, as often as it is in the input, in the bucket of its
\* normalized key and in no other bucket of normalizedIndex, and in the
\* buckets of the prefixes key[0:l], l = 1..min(len(key), plen), and in no
\* other bucket of prefixCache
PlacedOnce(art, plen) ==
    /\ DOMAIN art.normalizedIndex = InputKeys
    /\ DOMAIN art.prefixCache = UNION {PrefixesOf(k, plen) : k \in InputKeys}
    /\ \A w \in Elements(InputWords) :
          /\ \A k \in DOMAIN art.normalizedIndex :
                CountIn(WordsOf(art.normalizedIndex[k]), w) =
                    IF k = Normalize(w) THEN CountIn(InputWords, w) ELSE 0
          /\ \A q \in DOMAIN art.prefixCache :
                CountIn(WordsOf(art.prefixCache[q]), w) =
                    IF q \in PrefixesOf(Normalize(w), plen)
                    THEN CountIn(InputWords, w) ELSE 0
          /\ Cardinality({q \in DOMAIN art.prefixCache :
                            CountIn(WordsOf(art.prefixCache[q]), w) > 0})
                = Min(Len(Normalize(w)), plen)

\* C3: in every build path each input entry is exactly once in
\* normalizedIndex, under its normalized key, and in exactly
\* min(len(key), prefixLength) prefixCache buckets, also for
\* build_symspell_dict run with a --prefix_length other than 4.
C3_PlacedOnceEveryPath ==
    \A path \in bdone : PlacedOnce(Out(path), ConfiguredPrefixLength(path))

\* the parts of C3 the code keeps: the other two paths, and
\* build_symspell_dict when --prefix_length is 4
C3_PlacedOnceElsewhere ==
    \A path \in bdone :
        (path # "main" \/ prefix_length = CachePrefixLength) =>
            PlacedOnce(Out(path), ConfiguredPrefixLength(path))

\* the value a path stores for key K: build_symspell_dict the full key,
\* convert_to_symspell the prefix
StoredFor(path, K) ==
    IF path = "main" THEN K ELSE SliceTo(K, prefix_length)

\* every string at lo..max_edit_distance deletions from the prefix of a key
\* is a key of symDeletes, and its list holds the value stored for that key
DeletesCovered(path, lo) ==
    \A K \in DOMAIN Out(path).normalizedIndex :
        \A S \in DeletionsBetween(SliceTo(K, prefix_length), lo,
                                  max_edit_distance) :
            /\ S \in DOMAIN Out(path).symDeletes
            /\ StoredFor(path, K) \in Elements(Out(path).symDeletes[S])

\* C4 as stated: every S reachable from the prefix P of a key K by AT MOST
\* maxEditDistance deletions (none included) is a key of symDeletes whose
\* list holds P, or K under the full-key policy.
C4_AtMostDeletions ==
    \A path \in bdone \cap {"main", "convert"} : DeletesCovered(path, 0)

\* C4 amended: every S reachable from the prefix P of a key K by at least
\* one and at most maxEditDistance deletions is a key of symDeletes whose
\* list holds P (convert_to_symspell) or K (build_symspell_dict.main).
C4_OneToMaxDeletions ==
    \A path \in bdone \cap {"main", "convert"} : DeletesCovered(path, 1)

\* both paths have run on a key longer than the prefix, at distance 2
C4_Witness ==
    /\ {"main", "convert"} \subseteq bdone
    /\ bdata = <<E_citta, E_casa>>
    /\ prefix_length = 4
    /\ max_edit_distance = 2
    /\ <<"c", "i">> \in DOMAIN outConvert.symDeletes
    /\ <<"c", "i">> \in DOMAIN outMain.symDeletes

\* C5: for the same input and options build_symspell_dict.main and
\* convert_to_symspell produce the same symDeletes map.
C5_SamePolicy ==
    ({"main", "convert"} \subseteq bdone
        /\ outMain.normalizedIndex = outConvert.normalizedIndex) =>
            outMain.symDeletes = outConvert.symDeletes

\* the input entries whose key is k, in input order
InputWordsWithKey(k) ==
    LET Has(w) == Normalize(w) = k IN SelectSeq(InputWords, Has)

\* the input entries whose key has prefix q, in input order
InputWordsWithPrefix(q) ==
    LET Has(w) == Len(Normalize(w)) >= Len(q)
                  /\ SubSeq(Normalize(w), 1, Len(q)) = q
    IN  SelectSeq(InputWords, Has)

InputOrder(art) ==
    /\ \A k \in DOMAIN art.normalizedIndex :
          WordsOf(art.normalizedIndex[k]) = InputWordsWithKey(k)
    /\ \A q \in DOMAIN art.prefixCache :
          WordsOf(art.prefixCache[q]) = InputWordsWithPrefix(q)

\* C6: in every build path the entries of each normalizedIndex bucket and of
\* each prefixCache bucket are in input order, with the input spelling.
C6_InputOrderEveryPath ==
    \A path \in bdone : InputOrder(Out(path))

\* the part of C6 the code keeps: normalizedIndex in every path, prefixCache
\* in build_symspell_dict and convert_to_symspell
C6_InputOrderElsewhere ==
    /\ \A path \in bdone \ {"pre"} : InputOrder(Out(path))
    /\ "pre" \in bdone =>
          \A k \in DOMAIN outPre.normalizedIndex :
              WordsOf(outPre.normalizedIndex[k]) = InputWordsWithKey(k)

\* the frequency the selection ranks an input entry by, for every input
\* entry spelled w
RankedFrequencies(w) ==
    {FreqKey(bdata[i]) : i \in {j \in 1..Len(bdata) : bdata[j]["w"] = w}}

\* every entry stored in a bucket carries a frequency its input entry is
\* ranked by
StoredAsRanked(map) ==
    \A k \in DOMAIN map :
        \A j \in 1..Len(map[k]) :
            map[k][j].frequency \in RankedFrequencies(map[k][j].word)

\* C11: an entry with no frequency field has frequency 0 everywhere: the
\* frequency stored for it in normalizedIndex and prefixCache is the
\* frequency it is ranked by (0), in every build path.
C11_StoredFrequencyIsRanked ==
    \A path \in bdone :
        /\ StoredAsRanked(Out(path).normalizedIndex)
        /\ StoredAsRanked(Out(path).prefixCache)

\* the part of C11 the code keeps: entries that have a frequency field
C11_StoredFrequencyWhenPresent ==
    \A path \in bdone :
        \A k \in DOMAIN Out(path).normalizedIndex :
            \A j \in 1..Len(Out(path).normalizedIndex[k]) :
                LET ie == Out(path).normalizedIndex[k][j]
                IN  (\A i \in 1..Len(bdata) :
                        bdata[i]["w"] = ie.word => "f" \in DOMAIN bdata[i])
                    => ie.frequency \in RankedFrequencies(ie.word)

(***************************************************************************)
(* Specification of normalize on bounded words: the word is normalized by   *)
(* both implementations, then its upper-cased and lower-cased spellings     *)
(* are.                                                                     *)
(***************************************************************************)
NormAlphabet ==
    {"c", "C", "s", "agrave", "Agrave", "eszett", "alef", "grave", "visarga",
     "1"}

UpperStr(word) == Flatten([i \in 1..Len(word) |-> Upper(word[i])])

InitNormalize ==
    /\ nword \in SeqsUpTo(NormAlphabet, MaxWordLen)
    /\ nkey = <<>>
    /\ nkeyPre = <<>>
    /\ nkeyUpper = <<>>
    /\ nkeyLower = <<>>
    /\ npc = "start"
    /\ IdleDeletes
    /\ IdleTruncate
    /\ IdleBuild
    /\ IdleScripts

NormalizeWord ==
    /\ npc = "start"
    /\ nkey' = Normalize(nword)
    /\ nkeyPre' = NormalizePre(nword)
    /\ npc' = "keyed"
    /\ UNCHANGED <<nword, nkeyUpper, nkeyLower, dvars, tvars, bvars, xvars>>

NormalizeRecased ==
    /\ npc = "keyed"
    /\ nkeyUpper' = Normalize(UpperStr(nword))
    /\ nkeyLower' = Normalize(LowerStr(nword))
    /\ npc' = "done"
    /\ UNCHANGED <<nword, nkey, nkeyPre, dvars, tvars, bvars, xvars>>

NextNormalize == NormalizeWord \/ NormalizeRecased

SpecNormalize == InitNormalize /\ [][NextNormalize]_vars

\* the letters of the lowercased, canonically decomposed word, in order
LettersOfDecomposed(word) ==
    LET Letter(ch) == Category(ch) \in {"Lu", "Ll", "Lt", "Lm", "Lo"}
    IN  SelectSeq(NFDStr(LowerStr(word)), Letter)

\* C12: normalize returns the lowercased, canonically decomposed word with
\* exactly its letters kept in order; both implementations return the same
\* key; the key is the same for every re-casing of the word.
C12_NormalizeKey ==
    /\ npc # "start" =>
          /\ nkey = LettersOfDecomposed(nword)
          /\ nkeyPre = nkey
    /\ npc = "done" =>
          /\ nkeyUpper = nkey
          /\ nkeyLower = nkey

\* the parts of C12 the code keeps: the key is the letters of the
\* lowercased decomposed word, the two implementations agree, and
\* lower-casing the word first does not change the key
C12_NormalizeKeyButUpper ==
    /\ npc # "start" =>
          /\ nkey = LettersOfDecomposed(nword)
          /\ nkeyPre = nkey
    /\ npc = "done" => nkeyLower = nkey

(***************************************************************************)
(* The scripts run over a dictionaries directory.  A *_base.json file is    *)
(* modelled by the JSON value it holds: a list of entries, or a value that  *)
(* is not a list.  Three languages, in sorted order de < en < it.           *)
(***************************************************************************)
Languages == {"de", "en", "it"}

LangRank(l) ==
    CASE l = "de" -> 1
      [] l = "en" -> 2
      [] l = "it" -> 3

\* the head of sorted(json_files)
FirstSorted(S) == CHOOSE l \in S : \A m \in S : LangRank(l) <= LangRank(m)

ListContent(items) == [isList |-> TRUE, items |-> items]

NotListContent == [isList |-> FALSE, items |-> <<>>]

Unsorted == <<E_Casa, E_casa>>
Malformed == <<E_noword, E_casa>>

ContentChoices ==
    {ListContent(Unsorted), ListContent(Malformed), NotListContent}

\* what dict_backup/ holds from an earlier run
StaleContent == ListContent(<<E_digits>>)

\* entry["w"] raises KeyError for an entry without "w"
HasWords(data) == \A i \in 1..Len(data) : "w" \in DOMAIN data[i]

\* argparse defaults of build_symspell_dict.py
DefaultMaxEditDistance == 2
DefaultPrefixLength == 4

WriteFile(files, l, content) ==
    [m \in DOMAIN files \cup {l} |-> IF m = l THEN content ELSE files[m]]

InitScripts ==
    /\ driver \in {"btc", "call", "pre", "td"}
    /\ fs \in UNION {[S -> ContentChoices] : S \in SUBSET Languages}
    /\ backupFs \in {EmptyMap, [l \in DOMAIN fs |-> StaleContent]}
    /\ dictFs = EmptyMap
    /\ td_input \in (IF driver = "td" THEN Languages ELSE {"none"})
    /\ td_inplace \in (IF driver = "td" THEN BOOLEAN ELSE {FALSE})
    /\ outFile = <<>>
    /\ pc = "start"
    /\ todo = {}
    /\ cur = "none"
    /\ curData = <<>>
    /\ ok = {}
    /\ failed = {}
    /\ exit_code = -1
    /\ max_words \in {1, 2}
    /\ prefix_length = DefaultPrefixLength
    /\ max_edit_distance = DefaultMaxEditDistance
    /\ tdata = <<>>
    /\ truncated = <<>>
    /\ truncated2 = <<>>
    /\ tpc = "idle"
    /\ bdata = <<>>
    /\ bdone = {}
    /\ outMain = EmptyArtifact
    /\ outConvert = EmptyArtifact
    /\ outPre = EmptyArtifact
    /\ IdleDeletes
    /\ IdleNormalize

\* what no script changes
Fixed ==
    UNCHANGED <<driver, td_input, td_inplace, dvars, tvars, bvars, nvars>>

(*------------------- backup_truncate_and_convert.main -------------------*)
\* backup_dictionaries: every *_base.json copied to dict_backup/; no file
\* found: main returns 1
BtcBackup ==
    /\ driver = "btc" /\ pc = "start"
    /\ IF DOMAIN fs = {}
       THEN /\ pc' = "done" /\ exit_code' = 1
            /\ UNCHANGED <<backupFs, todo>>
       ELSE /\ backupFs' = [l \in DOMAIN backupFs \cup DOMAIN fs |->
                               IF l \in DOMAIN fs THEN fs[l] ELSE backupFs[l]]
            /\ todo' = DOMAIN fs
            /\ pc' = "loop"
            /\ UNCHANGED exit_code
    /\ UNCHANGED <<fs, dictFs, outFile, cur, curData, ok, failed>>
    /\ Fixed

\* process_dictionaries, first half of an iteration: truncate_dictionary and
\* the write back to the source file; an exception ends the loop with
\* return False, so main returns 1
BtcTruncateWrite ==
    /\ driver = "btc" /\ pc = "loop"
    /\ \E l \in todo :
          /\ todo' = todo \ {l}
          /\ IF ~fs[l].isList
             THEN /\ failed' = failed \cup {l}
                  /\ pc' = "done" /\ exit_code' = 1
                  /\ UNCHANGED <<fs, cur, curData>>
             ELSE /\ curData' = TruncateDictionary(fs[l].items, max_words)
                  /\ fs' = [fs EXCEPT ![l] = ListContent(curData')]
                  /\ cur' = l
                  /\ pc' = "convert"
                  /\ UNCHANGED <<failed, exit_code>>
    /\ UNCHANGED <<backupFs, dictFs, outFile, ok>>
    /\ Fixed

\* second half: convert_to_symspell and the write of the .dict file
BtcConvertWrite ==
    /\ driver = "btc" /\ pc = "convert"
    /\ IF ~HasWords(curData)
       THEN /\ failed' = failed \cup {cur}
            /\ pc' = "done" /\ exit_code' = 1
            /\ UNCHANGED <<dictFs, ok>>
       ELSE /\ dictFs' = WriteFile(dictFs, cur,
                  ConvertToSymspell(curData, max_edit_distance, prefix_length))
            /\ ok' = ok \cup {cur}
            /\ pc' = "loop"
            /\ UNCHANGED <<failed, exit_code>>
    /\ cur' = "none"
    /\ curData' = <<>>
    /\ UNCHANGED <<fs, backupFs, outFile, todo>>
    /\ Fixed

\* the loop ran through: return True, main returns 0
BtcFinish ==
    /\ driver = "btc" /\ pc = "loop" /\ todo = {}
    /\ pc' = "done" /\ exit_code' = 0
    /\ UNCHANGED <<fs, backupFs, dictFs, outFile, todo, cur, curData, ok,
                   failed>>
    /\ Fixed

(*---------------------- convert_all_to_symspell.main --------------------*)
CallStart ==
    /\ driver = "call" /\ pc = "start"
    /\ IF DOMAIN fs = {}
       THEN pc' = "done" /\ exit_code' = 1 /\ UNCHANGED todo
       ELSE pc' = "loop" /\ todo' = DOMAIN fs /\ UNCHANGED exit_code
    /\ UNCHANGED <<fs, backupFs, dictFs, outFile, cur, curData, ok, failed>>
    /\ Fixed

\* one iteration: build_symspell_dict.py run as a subprocess with its
\* default options; a non-zero return code puts the language in failed
CallProcessNext ==
    /\ driver = "call" /\ pc = "loop" /\ todo # {}
    /\ LET l == FirstSorted(todo)
       IN  /\ todo' = todo \ {l}
           /\ IF fs[l].isList /\ HasWords(fs[l].items)
              THEN /\ dictFs' = WriteFile(dictFs, l,
                         BuildSymspellDictOut(fs[l].items,
                             DefaultMaxEditDistance, DefaultPrefixLength))
                   /\ ok' = ok \cup {l}
                   /\ UNCHANGED failed
              ELSE /\ failed' = failed \cup {l}
                   /\ UNCHANGED <<dictFs, ok>>
    /\ UNCHANGED <<fs, backupFs, outFile, pc, cur, curData, exit_code>>
    /\ Fixed

\* return 0 if not failed else 1
CallFinish ==
    /\ driver = "call" /\ pc = "loop" /\ todo = {}
    /\ pc' = "done"
    /\ exit_code' = IF failed = {} THEN 0 ELSE 1
    /\ UNCHANGED <<fs, backupFs, dictFs, outFile, todo, cur, curData, ok,
                   failed>>
    /\ Fixed

(*---------------------- preprocess_dictionaries.main --------------------*)
PreStart ==
    /\ driver = "pre" /\ pc = "start"
    /\ IF DOMAIN fs = {}
       THEN pc' = "done" /\ exit_code' = 1 /\ UNCHANGED todo
       ELSE pc' = "loop" /\ todo' = DOMAIN fs /\ UNCHANGED exit_code
    /\ UNCHANGED <<fs, backupFs, dictFs, outFile, cur, curData, ok, failed>>
    /\ Fixed

\* one iteration: process_dictionary; an exception is printed and the loop
\* goes on
PreProcessNext ==
    /\ driver = "pre" /\ pc = "loop" /\ todo # {}
    /\ LET l == FirstSorted(todo)
       IN  /\ todo' = todo \ {l}
           /\ IF fs[l].isList /\ HasWords(fs[l].items)
              THEN /\ dictFs' = WriteFile(dictFs, l,
                                          ProcessDictionaryOut(fs[l].items))
                   /\ ok' = ok \cup {l}
                   /\ UNCHANGED failed
              ELSE /\ failed' = failed \cup {l}
                   /\ UNCHANGED <<dictFs, ok>>
    /\ UNCHANGED <<fs, backupFs, outFile, pc, cur, curData, exit_code>>
    /\ Fixed

\* main returns None after the loop: the process exits with status 0
PreFinish ==
    /\ driver = "pre" /\ pc = "loop" /\ todo = {}
    /\ pc' = "done"
    /\ exit_code' = 0
    /\ UNCHANGED <<fs, backupFs, dictFs, outFile, todo, cur, curData, ok,
                   failed>>
    /\ Fixed

(*---------------------------- truncate_dict.main ------------------------*)
\* --input td_input, --output the same path (td_inplace) or another file
TdMain ==
    /\ driver = "td" /\ pc = "start"
    /\ pc' = "done"
    /\ IF td_input \notin DOMAIN fs
       THEN exit_code' = 1 /\ UNCHANGED <<fs, outFile, ok, failed>>
       ELSE IF ~fs[td_input].isList
       THEN /\ exit_code' = 1
            /\ failed' = failed \cup {td_input}
            /\ UNCHANGED <<fs, outFile, ok>>
       ELSE LET result == TruncateDictionary(fs[td_input].items, max_words)
            IN  /\ IF td_inplace
                   THEN /\ fs' = [fs EXCEPT ![td_input] = ListContent(result)]
                        /\ UNCHANGED outFile
                   ELSE /\ outFile' = result
                        /\ UNCHANGED fs
                /\ ok' = ok \cup {td_input}
                /\ exit_code' = 0
                /\ UNCHANGED failed
    /\ UNCHANGED <<backupFs, dictFs, todo, cur, curData>>
    /\ Fixed

Init == InitScripts

Next ==
    \/ BtcBackup \/ BtcTruncateWrite \/ BtcConvertWrite \/ BtcFinish
    \/ CallStart \/ CallProcessNext \/ CallFinish
    \/ PreStart \/ PreProcessNext \/ PreFinish
    \/ TdMain

Spec == Init /\ [][Next]_vars

BatchDrivers == {"btc", "call", "pre"}

\* C7: in every batch driver a failure of one language never prevents the
\* other languages found from being processed: when the driver has
\* finished, every language found has been processed, with or without error.
C7_FailureDoesNotStopOthers ==
    (pc = "done" /\ driver \in BatchDrivers /\ DOMAIN fs # {}) =>
        ok \cup failed = DOMAIN fs

\* C8: each batch driver that found dictionaries exits with status 0 if and
\* only if every language was processed without error.
C8_ExitZeroIffAllOk ==
    (pc = "done" /\ driver \in BatchDrivers /\ DOMAIN fs # {}) =>
        (exit_code = 0 <=> ok = DOMAIN fs)

\* C9: a step that replaces the contents of a source file is taken only
\* when dict_backup/ holds a copy of the contents the file held just before.
C9_BackupBeforeOverwrite ==
    [][\A l \in DOMAIN fs :
          fs'[l] # fs[l] => (l \in DOMAIN backupFs /\ backupFs[l] = fs[l])]_vars

\* the parts of C7 to C9 the code keeps
C7_CallAndPreGoOn ==
    (pc = "done" /\ driver \in {"call", "pre"} /\ DOMAIN fs # {}) =>
        ok \cup failed = DOMAIN fs

C8_BtcAndCallExit ==
    (pc = "done" /\ driver \in {"btc", "call"} /\ DOMAIN fs # {}) =>
        (exit_code = 0 <=> ok = DOMAIN fs)

C9_BtcBackupBeforeOverwrite ==
    [][driver = "btc" =>
          \A l \in DOMAIN fs :
              fs'[l] # fs[l] =>
                  (l \in DOMAIN backupFs /\ backupFs[l] = fs[l])]_vars

\* a language of the run of backup_truncate_and_convert whose source file
\* held, when the run started, a list with a record without "w".  The copy
\* in dict_backup/ made by the backup step is those contents.
MalformedAtStart(l) ==
    /\ l \in DOMAIN backupFs
    /\ backupFs[l].isList
    /\ ~HasWords(backupFs[l].items)

\* C13: in backup_truncate_and_convert, a language whose input holds a
\* record without "w" gets no write: no .dict file is written for it and
\* its source JSON file keeps the contents it had before processing.
C13_MalformedNoWrite ==
    (driver = "btc" /\ pc # "start") =>
        \A l \in DOMAIN fs :
            MalformedAtStart(l) =>
                /\ l \notin DOMAIN dictFs
                /\ fs[l] = backupFs[l]

\* what the code does keep for such a language: when its own conversion
\* has raised, no .dict file was written for it
C13_FailedNoDict ==
    (driver = "btc" /\ pc # "start") =>
        \A l \in failed : l \notin DOMAIN dictFs

=============================================================================
